---- MODULE Spec2Model ----
(***************************************************************************)
(* Service Layer contract initializer (deploy/scripts/initialize.py) and   *)
(* the devpack action builder (sdk/python/devpack/__init__.py).            *)
(*                                                                         *)
(* A Python str is modelled as a sequence of one-character strings, so     *)
(* that prefix stripping, hex decoding, byte reversal and hex encoding are *)
(* computed the way the code computes them.  The empty str is << >>.       *)
(***************************************************************************)
EXTENDS Integers, Sequences, FiniteSets, TLC

VARIABLES
    \* ---- environment of one run of main() ----
    argv,           \* sys.argv[1] (or the default "neoexpress")
    fileExists,     \* DEPLOYED_FILE.exists()
    neoxpFound,     \* shutil.which / ~/.dotnet/tools/neoxp resolves
    envTeePubkey,   \* os.environ.get("TEE_PUBKEY", "")
    \* ---- ContractInitializer fields and the position of main() ----
    deployed,       \* self.deployed: contract name -> identifier
    network,        \* self.network.name, "none" before NETWORKS.get
    tee_pubkey,     \* self.tee_pubkey
    tee_hash,       \* tee_hash local of initialize_gateway (line 233)
    pc,             \* position of the program
    exitStatus,     \* process exit status, -1 while running
    calls,          \* external calls issued so far, in order
    log,            \* what was printed, in order
    \* ---- inputs and results of the functions applied on their own ----
    arg,            \* the argument of the function under application
    out1,           \* its result
    out2            \* the result of applying it again (reverse_hash160)

vars == <<argv, fileExists, neoxpFound, envTeePubkey, deployed, network,
          tee_pubkey, tee_hash, pc, exitStatus, calls, log, arg, out1, out2>>

runEnv == <<argv, fileExists, neoxpFound, envTeePubkey>>

-----------------------------------------------------------------------------
(* Model bounds *)

\* byte patterns from which candidate identifiers are built
MaxSeed == 3
\* largest small integer a caller passes as a parameter value
MaxParam == 2
\* contracts in a partially deployed registry
MaxDeployed == 3

-----------------------------------------------------------------------------
(* str / bytes helpers *)

LowerHex == <<"0","1","2","3","4","5","6","7","8","9","a","b","c","d","e","f">>
UpperHex == <<"0","1","2","3","4","5","6","7","8","9","A","B","C","D","E","F">>

IsHexChar(c) == \E i \in 1..16 : LowerHex[i] = c \/ UpperHex[i] = c

HexVal(c) == (CHOOSE i \in 1..16 : LowerHex[i] = c \/ UpperHex[i] = c) - 1

\* value.startswith("0x")
StartsWith0x(s) == Len(s) >= 2 /\ s[1] = "0" /\ s[2] = "x"

\* bytes.fromhex(s): two hex digits per byte, either case; ValueError otherwise
\* (ASCII whitespace, which fromhex skips, is not part of any input here)
FromHex(s) ==
    IF Len(s) % 2 = 1 \/ \E i \in 1..Len(s) : ~IsHexChar(s[i])
    THEN [ok |-> FALSE, raw |-> << >>]
    ELSE [ok |-> TRUE,
          raw |-> [i \in 1..(Len(s) \div 2) |->
                      16 * HexVal(s[2*i - 1]) + HexVal(s[2*i])]]

\* bytes.hex(): lowercase, two digits per byte
ToHex(raw) ==
    [k \in 1..(2 * Len(raw)) |->
        LET b == raw[(k + 1) \div 2]
        IN  IF k % 2 = 1 THEN LowerHex[(b \div 16) + 1] ELSE LowerHex[(b % 16) + 1]]

\* raw[::-1]
Reversed(raw) == [i \in 1..Len(raw) |-> raw[Len(raw) + 1 - i]]

\* upper-case digits, as some tools print an identifier
ToUpper(s) ==
    [i \in 1..Len(s) |->
        IF IsHexChar(s[i]) /\ s[i] # "x" THEN UpperHex[HexVal(s[i]) + 1] ELSE s[i]]

-----------------------------------------------------------------------------
(* reverse_hash160, initialize.py:34-50 *)

HASH160_LEN == 20

\* mutants
reverse_hash160_noprefix(value) ==
    IF value = << >> THEN [raised |-> "none", value |-> << >>]
    ELSE LET hex_value == IF StartsWith0x(value) THEN SubSeq(value, 3, Len(value)) ELSE value
             dec == FromHex(hex_value)
         IN  IF ~dec.ok THEN [raised |-> "ValueError:fromhex", value |-> << >>]
             ELSE IF Len(dec.raw) # HASH160_LEN
             THEN [raised |-> "ValueError:size", value |-> << >>]
             ELSE [raised |-> "none", value |-> ToHex(Reversed(dec.raw))]

reverse_hash160_atleast(value) ==
    IF value = << >> THEN [raised |-> "none", value |-> << >>]
    ELSE LET hex_value == IF StartsWith0x(value) THEN SubSeq(value, 3, Len(value)) ELSE value
             dec == FromHex(hex_value)
         IN  IF ~dec.ok THEN [raised |-> "ValueError:fromhex", value |-> << >>]
             ELSE IF Len(dec.raw) < HASH160_LEN
             THEN [raised |-> "ValueError:size", value |-> << >>]
             ELSE [raised |-> "none", value |-> <<"0", "x">> \o ToHex(Reversed(dec.raw))]

reverse_hash160_noreverse(value) ==
    IF value = << >> THEN [raised |-> "none", value |-> << >>]
    ELSE LET hex_value == IF StartsWith0x(value) THEN SubSeq(value, 3, Len(value)) ELSE value
             dec == FromHex(hex_value)
         IN  IF ~dec.ok THEN [raised |-> "ValueError:fromhex", value |-> << >>]
             ELSE IF Len(dec.raw) # HASH160_LEN
             THEN [raised |-> "ValueError:size", value |-> << >>]
             ELSE [raised |-> "none", value |-> <<"0", "x">> \o ToHex(dec.raw)]

\* The result is the returned str, or the ValueError raised to the caller:
\* "ValueError:size" is the function's own length check (line 49),
\* "ValueError:fromhex" is the one bytes.fromhex raises (line 47).
reverse_hash160(value) ==
    IF value = << >> THEN [raised |-> "none", value |-> << >>]
    ELSE LET hex_value == IF StartsWith0x(value) THEN SubSeq(value, 3, Len(value)) ELSE value
             dec == FromHex(hex_value)
         IN  IF ~dec.ok THEN [raised |-> "ValueError:fromhex", value |-> << >>]
             ELSE IF Len(dec.raw) # HASH160_LEN
             THEN [raised |-> "ValueError:size", value |-> << >>]
             ELSE [raised |-> "none", value |-> <<"0", "x">> \o ToHex(Reversed(dec.raw))]

-----------------------------------------------------------------------------
(* Candidate identifier strings *)

\* n bytes, all distinct for n <= 23, with digits a-f among them
PatternBytes(seed, n) == [i \in 1..n |-> (seed * 53 + i * 11) % 256]

\* the str forms of n pattern bytes: lower or upper case, with or without 0x
HexForms(seed, n) ==
    LET low == ToHex(PatternBytes(seed, n))
    IN  { low, <<"0", "x">> \o low, ToUpper(low), <<"0", "x">> \o ToUpper(low) }

\* as-deployed form of an identifier: 0x-prefixed lowercase
MkId(seed) == <<"0", "x">> \o ToHex(PatternBytes(seed, HASH160_LEN))

\* strings handed to reverse_hash160: absent, 0..21 bytes long in every form,
\* an odd number of digits, a non-hex digit
ReverseInputs ==
    { << >> }
    \cup UNION { HexForms(s, n) : s \in 0..MaxSeed,
                 n \in {0, 1, HASH160_LEN - 1, HASH160_LEN, HASH160_LEN + 1} }
    \cup { Tail(MkId(s)) : s \in 0..MaxSeed }
    \cup { SubSeq(MkId(s), 1, 2 * HASH160_LEN + 1) \o <<"g">> : s \in 0..MaxSeed }

-----------------------------------------------------------------------------
(* reverse_hash160 applied on its own, then applied to its own result *)

NoResult == [raised |-> "unset", value |-> << >>]

idle == <<argv, fileExists, neoxpFound, envTeePubkey, deployed, network,
          tee_pubkey, tee_hash, exitStatus, calls, log>>

IdleInit ==
    /\ argv = "neoexpress" /\ fileExists = FALSE /\ neoxpFound = FALSE
    /\ envTeePubkey = << >> /\ deployed = << >> /\ network = "none"
    /\ tee_pubkey = << >> /\ tee_hash = << >> /\ exitStatus = -1
    /\ calls = << >> /\ log = << >>

ReverseInit ==
    /\ IdleInit
    /\ pc = "reverse"
    /\ arg \in ReverseInputs
    /\ out1 = NoResult /\ out2 = NoResult

Reverse ==
    /\ pc = "reverse"
    /\ out1' = reverse_hash160(arg)
    /\ pc' = IF out1'.raised = "none" THEN "reverse_again" ELSE "returned"
    /\ UNCHANGED <<arg, out2, idle>>

ReverseAgain ==
    /\ pc = "reverse_again"
    /\ out2' = reverse_hash160(out1.value)
    /\ pc' = "returned"
    /\ UNCHANGED <<arg, out1, idle>>

ReverseNext == Reverse \/ ReverseAgain

SpecReverse == ReverseInit /\ [][ReverseNext]_vars

-----------------------------------------------------------------------------
(* Module constants of initialize.py *)

\* str literals as character sequences
S_oracle       == <<"o","r","a","c","l","e">>
S_vrf          == <<"v","r","f">>
S_automation   == <<"a","u","t","o","m","a","t","i","o","n">>
S_confidential == <<"c","o","n","f","i","d","e","n","t","i","a","l">>
S_100          == <<"1","0","0">>
S_GAS          == <<"G","A","S">>
S_genesis      == <<"g","e","n","e","s","i","s">>
S_user         == <<"u","s","e","r">>

\* GATEWAY_SERVICES.items(), in insertion order
GATEWAY_SERVICES ==
    << [type |-> S_oracle,       contract |-> "OracleService"],
       [type |-> S_vrf,          contract |-> "VRFService"],
       [type |-> S_automation,   contract |-> "NeoFlowService"],
       [type |-> S_confidential, contract |-> "ConfidentialService"] >>

\* the examples list of initialize_examples
EXAMPLES == <<"ExampleConsumer", "VRFLottery", "DeFiPriceConsumer">>

\* NETWORKS: the profile names; only neoexpress carries a neo_express_config
NETWORKS == {"neoexpress", "testnet"}

HasNeoExpressConfig(net) == net = "neoexpress"

\* dict.get(key) / dict.get(key, ""): an absent key and an empty value are
\* both falsy, and the code only tests truthiness
Get(d, k) == IF k \in DOMAIN d THEN d[k] ELSE << >>

-----------------------------------------------------------------------------
(* Registry files, wallets and tool outcomes a run may meet *)

ContractSeed ==
    [n \in {"ServiceLayerGateway", "OracleService", "VRFService", "NeoFlowService",
            "ConfidentialService", "DataFeedsService", "ExampleConsumer",
            "VRFLottery", "DeFiPriceConsumer"} |->
        CASE n = "ServiceLayerGateway" -> 0
          [] n = "OracleService"       -> 20
          [] n = "VRFService"          -> 21
          [] n = "NeoFlowService"      -> 22
          [] n = "ConfidentialService" -> 23
          [] n = "DataFeedsService"    -> 24
          [] n = "ExampleConsumer"     -> 25
          [] n = "VRFLottery"          -> 26
          [] n = "DeFiPriceConsumer"   -> 27]

ContractNames == DOMAIN ContractSeed

\* the forms in which the file may hold an identifier: as deployed, without the
\* 0x prefix, empty, and (for the gateway) one byte short
IdForms(n) ==
    IF n = "ServiceLayerGateway"
    THEN { MkId(ContractSeed[n]), SubSeq(MkId(ContractSeed[n]), 3, 2 * HASH160_LEN + 2),
           << >>, SubSeq(MkId(ContractSeed[n]), 1, 2 * HASH160_LEN) }
    ELSE { MkId(ContractSeed[n]) }

\* a registry with the given names deployed, g being the gateway's identifier
Registry(D, g) ==
    [n \in D |-> IF n = "ServiceLayerGateway" THEN g ELSE MkId(ContractSeed[n])]

\* the registry files of a run: up to MaxDeployed contracts deployed, or all of
\* them; only the gateway's identifier varies in form
RegistryFiles ==
    { Registry(D, g) : g \in IdForms("ServiceLayerGateway"),
                       D \in { X \in SUBSET ContractNames :
                                  Cardinality(X) <= MaxDeployed \/ X = ContractNames } }

PUBKEY_LEN == 33

TeeKey  == ToHex(PatternBytes(7, PUBKEY_LEN))
TeeHash == MkId(40)

EmptyAccount == [script_hash |-> << >>, public_key |-> << >>]

Accounts ==
    [script_hash : {<< >>, TeeHash}, public_key : {<< >>, TeeKey, <<"0", "x">> \o TeeKey}]

\* what `neoxp wallet list --json` answers: exit status, whether stdout parses,
\* and the shape of the entry of the wallet asked for
WalletResponses ==
    { [rc |-> 1, json |-> "ok", entry |-> "absent", account |-> EmptyAccount],
      [rc |-> 0, json |-> "bad", entry |-> "absent", account |-> EmptyAccount] }
    \cup [rc : {0}, json : {"ok"}, entry : {"absent", "emptylist", "other"},
          account : {EmptyAccount}]
    \cup [rc : {0}, json : {"ok"}, entry : {"list"}, account : Accounts]
    \cup [rc : {0}, json : {"ok"}, entry : {"dict"},
          account : {[script_hash |-> TeeHash, public_key |-> TeeKey]}]

\* outcome of one contract invocation on the transport
Outcomes == {"ok", "fail"}

-----------------------------------------------------------------------------
(* The state a method works on: what it has called, printed and raised *)

Emit(st, msg) == [st EXCEPT !.log = Append(@, msg)]

Raise(st, exc) == [st EXCEPT !.raised = exc]

Call(tool, cmd, target, method, args, outcome) ==
    [tool |-> tool, cmd |-> cmd, target |-> target, method |-> method,
     args |-> args, outcome |-> outcome]

\* _get_wallet_account, initialize.py:148-177.  Without a neo_express_config the
\* argument list holds None and subprocess.run raises TypeError before any
\* process is started.
_get_wallet_account(st, net, resp) ==
    IF ~HasNeoExpressConfig(net) THEN Raise(st, "TypeError")
    ELSE LET c  == Call("neoxp", "wallet list", << >>, "", << >>,
                        IF resp.rc = 0 THEN "ok" ELSE "fail")
             s1 == [st EXCEPT !.calls = Append(@, c)]
         IN  IF resp.rc # 0 THEN Raise(s1, "RuntimeError")
             ELSE IF resp.json = "bad"
             THEN [Emit(s1, "Warning: Failed to parse wallet list JSON")
                       EXCEPT !.account = EmptyAccount]
             ELSE IF resp.entry \in {"list", "dict"}
             THEN [s1 EXCEPT !.account = resp.account]
             ELSE [s1 EXCEPT !.account = EmptyAccount]

\* mutant
_invoke_neoexpress_noraise(st, contract_hash, method, args, outcome) ==
    [st EXCEPT !.calls = Append(@, Call("neoxp", "contract run", contract_hash,
                                        method, args, outcome)),
               !.ret = "result"]

\* _invoke_neoexpress, initialize.py:191-206
_invoke_neoexpress(st, contract_hash, method, args, outcome) ==
    LET s1 == [st EXCEPT !.calls = Append(@, Call("neoxp", "contract run",
                                                  contract_hash, method, args, outcome))]
    IN  IF outcome = "fail" THEN Raise(s1, "RuntimeError")
        ELSE [s1 EXCEPT !.ret = "result"]

\* _invoke_rpc, initialize.py:208-219: a response that is not JSON (or no
\* response at all) raises out of requests; any JSON body is returned as it is
_invoke_rpc(st, contract_hash, method, args, outcome) ==
    LET s1 == [st EXCEPT !.calls = Append(@, Call("rpc", "invokefunction",
                                                  contract_hash, method, args, outcome))]
    IN  IF outcome = "fail" THEN Raise(s1, "RequestException")
        ELSE [s1 EXCEPT !.ret = "result"]

\* mutant
invoke_only_none(st, dep, net, contract, method, args, outcome) ==
    IF contract \notin DOMAIN dep
    THEN [Emit(st, "Warning: Contract not found in deployed contracts")
              EXCEPT !.ret = "error: contract not found"]
    ELSE IF HasNeoExpressConfig(net)
    THEN _invoke_neoexpress(st, dep[contract], method, args, outcome)
    ELSE _invoke_rpc(st, dep[contract], method, args, outcome)

\* invoke, initialize.py:179-189
invoke(st, dep, net, contract, method, args, outcome) ==
    LET contract_hash == Get(dep, contract)
    IN  IF contract_hash = << >>
        THEN [Emit(st, "Warning: Contract not found in deployed contracts")
                  EXCEPT !.ret = "error: contract not found"]
        ELSE IF HasNeoExpressConfig(net)
        THEN _invoke_neoexpress(st, contract_hash, method, args, outcome)
        ELSE _invoke_rpc(st, contract_hash, method, args, outcome)

-----------------------------------------------------------------------------
(* The four phases of ContractInitializer.run.  oc[k] is the outcome the     *)
(* transport gives the k-th invocation the phase may issue.                  *)

RECURSIVE RegisterServices(_, _, _)
\* the loop of initialize_gateway, initialize.py:245-249
RegisterServices(i, st, oc) ==
    IF i > Len(GATEWAY_SERVICES) \/ st.raised # "none" THEN st
    ELSE LET service_type  == GATEWAY_SERVICES[i].type
             contract_name == GATEWAY_SERVICES[i].contract
             contract_hash == Get(deployed, contract_name)
         IN  IF contract_hash = << >> THEN RegisterServices(i + 1, st, oc)
             ELSE LET r == reverse_hash160(contract_hash)
                  IN  IF r.raised # "none" THEN Raise(st, r.raised)
                      ELSE LET s1 == invoke(st, deployed, network, "ServiceLayerGateway",
                                            "registerService", <<service_type, r.value>>,
                                            oc[i + 1])
                           IN  RegisterServices(i + 1,
                                   IF s1.raised # "none" THEN s1
                                   ELSE Emit(s1, "registered service"), oc)

\* initialize_gateway, initialize.py:221-249
initialize_gateway(st, oc, resp) ==
    IF Get(deployed, "ServiceLayerGateway") = << >>
    THEN Emit(st, "Error: ServiceLayerGateway not deployed")
    ELSE LET s1 == _get_wallet_account(st, network, resp)
         IN  IF s1.raised # "none" THEN s1
             ELSE LET s2 == [s1 EXCEPT !.tee_hash = s1.account.script_hash]
                      tee_pubkey_arg == IF StartsWith0x(tee_pubkey) THEN tee_pubkey
                                        ELSE <<"0", "x">> \o tee_pubkey
                      r  == reverse_hash160(s2.tee_hash)
                      s3 == IF s2.tee_hash = << >> \/ tee_pubkey = << >>
                            THEN Emit(s2, "Warning: Missing TEE wallet info; skipping TEE registration")
                            ELSE IF r.raised # "none" THEN Raise(s2, r.raised)
                            ELSE invoke(s2, deployed, network, "ServiceLayerGateway",
                                        "registerTEEAccount", <<r.value, tee_pubkey_arg>>, oc[1])
                  IN  RegisterServices(1, s3, oc)

RECURSIVE ConfigureServices(_, _, _, _)
\* the loop of initialize_services, initialize.py:261-265
ConfigureServices(i, st, gateway_arg, oc) ==
    IF i > Len(GATEWAY_SERVICES) \/ st.raised # "none" THEN st
    ELSE LET contract_name == GATEWAY_SERVICES[i].contract
         IN  IF Get(deployed, contract_name) = << >>
             THEN ConfigureServices(i + 1, st, gateway_arg, oc)
             ELSE ConfigureServices(i + 1,
                      invoke(Emit(st, "Configuring service"), deployed, network,
                             contract_name, "setGateway", <<gateway_arg>>, oc[i]),
                      gateway_arg, oc)

\* initialize_services, initialize.py:251-265
initialize_services(st, oc) ==
    LET gateway_hash == Get(deployed, "ServiceLayerGateway")
        r == reverse_hash160(gateway_hash)
    IN  IF gateway_hash = << >>
        THEN Emit(st, "Error: ServiceLayerGateway not deployed")
        ELSE IF r.raised # "none" THEN Raise(st, r.raised)
        ELSE ConfigureServices(1, st, r.value, oc)

RECURSIVE ConfigureExamples(_, _, _, _, _)
\* the loop of initialize_examples, initialize.py:278-286
ConfigureExamples(i, st, gateway_arg, datafeeds_arg, oc) ==
    IF i > Len(EXAMPLES) \/ st.raised # "none" THEN st
    ELSE LET example == EXAMPLES[i]
         IN  IF Get(deployed, example) = << >>
             THEN ConfigureExamples(i + 1, st, gateway_arg, datafeeds_arg, oc)
             ELSE LET s1 == invoke(Emit(st, "Configuring example"), deployed, network,
                                   example, "setGateway", <<gateway_arg>>, oc[i])
                      s2 == IF s1.raised = "none" /\ example = "DeFiPriceConsumer"
                               /\ datafeeds_arg # << >>
                            THEN invoke(s1, deployed, network, example,
                                        "setDataFeedsContract", <<datafeeds_arg>>, oc[i + 1])
                            ELSE s1
                  IN  ConfigureExamples(i + 1, s2, gateway_arg, datafeeds_arg, oc)

\* initialize_examples, initialize.py:267-286
initialize_examples(st, oc) ==
    LET gateway_hash   == Get(deployed, "ServiceLayerGateway")
        datafeeds_hash == Get(deployed, "DataFeedsService")
        g == IF gateway_hash # << >> THEN reverse_hash160(gateway_hash)
             ELSE [raised |-> "none", value |-> << >>]
        d == IF datafeeds_hash # << >> THEN reverse_hash160(datafeeds_hash)
             ELSE [raised |-> "none", value |-> << >>]
    IN  IF g.raised # "none" THEN Raise(st, g.raised)
        ELSE IF d.raised # "none" THEN Raise(st, d.raised)
        ELSE ConfigureExamples(1, st, g.value, d.value, oc)

\* mutant
fund_accounts_unguarded(st, outcome) ==
    LET s1 == [st EXCEPT !.calls = Append(@, Call("neoxp", "transfer", << >>, "",
                                  <<S_100, S_GAS, S_genesis, S_user>>, outcome))]
        s2 == IF outcome = "fail" THEN Emit(s1, "Warning: Failed to fund user") ELSE s1
    IN  Emit(s2, "Funded user account with 100 GAS")

\* fund_accounts, initialize.py:288-305
fund_accounts(st, outcome) ==
    IF ~HasNeoExpressConfig(network) THEN Emit(st, "Skipping (not Neo Express)")
    ELSE LET s1 == [st EXCEPT !.calls = Append(@, Call("neoxp", "transfer", << >>, "",
                                      <<S_100, S_GAS, S_genesis, S_user>>, outcome))]
             s2 == IF outcome = "fail" THEN Emit(s1, "Warning: Failed to fund user") ELSE s1
         IN  Emit(s2, "Funded user account with 100 GAS")

-----------------------------------------------------------------------------
(* ContractInitializer.__init__ *)

\* mutant
_load_deployed_contracts_lenient(exists, content) ==
    [raised |-> "none", value |-> IF exists THEN content ELSE << >>]

\* _load_deployed_contracts, initialize.py:125-131
_load_deployed_contracts(exists, content) ==
    IF ~exists THEN [raised |-> "FileNotFoundError", value |-> << >>]
    ELSE [raised |-> "none", value |-> content]

\* _resolve_neoxp, initialize.py:98-112
_resolve_neoxp(found) == IF found THEN "none" ELSE "FileNotFoundError"

\* _get_tee_pubkey / _get_wallet_pubkey, initialize.py:133-146; the key is
\* left in the account field
_get_tee_pubkey(st, net, resp) ==
    IF HasNeoExpressConfig(net) THEN _get_wallet_account(st, net, resp)
    ELSE [st EXCEPT !.account = [script_hash |-> << >>, public_key |-> envTeePubkey]]

\* __init__, initialize.py:88-96: the fields it sets and what it raised
ContractInitializer(st, name, content, resp) ==
    LET net  == IF name \in NETWORKS THEN name ELSE "none"
        load == _load_deployed_contracts(fileExists, content)
        tool == _resolve_neoxp(neoxpFound)
        key  == _get_tee_pubkey(st, net, resp)
        none == [st |-> st, network |-> net, deployed |-> << >>, tee_pubkey |-> << >>]
    IN  IF net = "none" THEN [none EXCEPT !.st = Raise(st, "ValueError")]
        ELSE IF load.raised # "none" THEN [none EXCEPT !.st = Raise(st, load.raised)]
        ELSE IF tool # "none"
        THEN [none EXCEPT !.st = Raise(st, tool), !.deployed = load.value]
        ELSE [st |-> key, network |-> net, deployed |-> load.value,
              tee_pubkey |-> IF key.raised = "none" THEN key.account.public_key ELSE << >>]

-----------------------------------------------------------------------------
(* main(): one run of the script *)

St0 == [calls |-> calls, log |-> log, raised |-> "none", ret |-> "none",
        account |-> EmptyAccount, tee_hash |-> tee_hash]

\* the except clauses of main, initialize.py:330-338
Handled(st) ==
    IF st.raised = "none" THEN st.log
    ELSE IF st.raised = "FileNotFoundError"
    THEN st.log \o <<"Error: FileNotFoundError", "Run deploy_all.sh first to deploy contracts">>
    ELSE st.log \o <<"Error during initialization", "traceback">>

\* what a step of main leaves behind: on an exception, exit status 1
Proceed(st, next) ==
    /\ calls' = st.calls
    /\ log' = Handled(st)
    /\ tee_hash' = st.tee_hash
    /\ pc' = IF st.raised = "none" THEN next ELSE "done"
    /\ exitStatus' = IF st.raised # "none" THEN 1 ELSE IF next = "done" THEN 0 ELSE -1

pure == <<arg, out1, out2>>

RunInit ==
    /\ pc = "main"
    /\ argv \in NETWORKS \cup {"mainnet"}
    /\ fileExists \in BOOLEAN
    /\ neoxpFound \in BOOLEAN
    /\ envTeePubkey \in {<< >>, TeeKey}
    /\ arg \in IF fileExists THEN RegistryFiles ELSE { << >> }
    /\ deployed = << >> /\ network = "none"
    /\ tee_pubkey = << >> /\ tee_hash = << >> /\ exitStatus = -1
    /\ calls = << >> /\ log = << >>
    /\ out1 = NoResult /\ out2 = NoResult

\* initializer = ContractInitializer(network), initialize.py:325-328
Construct ==
    /\ pc = "main"
    /\ \E resp \in WalletResponses :
          LET c == ContractInitializer(St0, argv, arg, resp)
          IN  /\ network' = c.network
              /\ deployed' = c.deployed
              /\ tee_pubkey' = c.tee_pubkey
              /\ Proceed(c.st, "gateway")
    /\ UNCHANGED <<runEnv, pure>>

\* an invocation that fails ends the phase, so at most one of a phase fails
PhaseOutcomes ==
    { [k \in 1..(Len(GATEWAY_SERVICES) + 1) |-> IF k = f THEN "fail" ELSE "ok"]
      : f \in 0..(Len(GATEWAY_SERVICES) + 1) }

InitializeGateway ==
    /\ pc = "gateway"
    /\ \E oc \in PhaseOutcomes, resp \in WalletResponses :
          Proceed(initialize_gateway(St0, oc, resp), "services")
    /\ UNCHANGED <<runEnv, pure, deployed, network, tee_pubkey>>

InitializeServices ==
    /\ pc = "services"
    /\ \E oc \in PhaseOutcomes : Proceed(initialize_services(St0, oc), "examples")
    /\ UNCHANGED <<runEnv, pure, deployed, network, tee_pubkey>>

InitializeExamples ==
    /\ pc = "examples"
    /\ \E oc \in PhaseOutcomes : Proceed(initialize_examples(St0, oc), "fund")
    /\ UNCHANGED <<runEnv, pure, deployed, network, tee_pubkey>>

\* fund_accounts and the closing prints of run, initialize.py:316-321
FundAccounts ==
    /\ pc = "fund"
    /\ \E outcome \in Outcomes :
          Proceed(Emit(fund_accounts(St0, outcome), "Initialization Complete"), "done")
    /\ UNCHANGED <<runEnv, pure, deployed, network, tee_pubkey>>

Next ==
    \/ Construct
    \/ InitializeGateway
    \/ InitializeServices
    \/ InitializeExamples
    \/ FundAccounts

Spec == RunInit /\ [][Next]_vars

-----------------------------------------------------------------------------
(* invoke applied on its own: any contract name against any registry *)

InvokeRequests ==
    [contract : {"ServiceLayerGateway", "OracleService", "ExampleConsumer", "NoSuchContract"},
     method   : {"setGateway"},
     args     : {<< MkId(s) >> : s \in 0..MaxSeed}]

InvokeInit ==
    /\ pc = "invoke"
    /\ argv \in NETWORKS /\ network = argv
    /\ fileExists = TRUE /\ neoxpFound = TRUE /\ envTeePubkey = << >>
    /\ deployed \in RegistryFiles
    /\ tee_pubkey = << >> /\ tee_hash = << >> /\ exitStatus = -1
    /\ calls = << >> /\ log = << >>
    /\ arg \in InvokeRequests
    /\ out1 = [raised |-> "unset", value |-> "unset"] /\ out2 = NoResult

Invoke ==
    /\ pc = "invoke"
    /\ \E outcome \in Outcomes :
          LET st == invoke(St0, deployed, network, arg.contract, arg.method, arg.args, outcome)
          IN  /\ calls' = st.calls
              /\ log' = st.log
              /\ out1' = [raised |-> st.raised, value |-> st.ret]
    /\ pc' = "returned"
    /\ UNCHANGED <<runEnv, deployed, network, tee_pubkey, tee_hash, exitStatus, arg, out2>>

SpecInvoke == InvokeInit /\ [][Invoke]_vars

-----------------------------------------------------------------------------
(* devpack: generate_random, sdk/python/devpack/__init__.py:67-71 *)

DEFAULT_LENGTH == 32

ACTION_RANDOM_GENERATE == "random.generate"

\* Python values a caller may put in a parameter mapping
PyInt(n) == [t |-> "int", v |-> n]

ParamValues ==
    { PyInt(n) : n \in (0..MaxParam) \cup {DEFAULT_LENGTH} }
    \cup { [t |-> "none", v |-> 0], [t |-> "str", v |-> 0], [t |-> "str", v |-> 1],
           [t |-> "bool", v |-> 0], [t |-> "bool", v |-> 1] }

\* bool(x): 0, None, "" and False are falsy
Truthy(x) == x.t # "none" /\ x.v # 0

ParamKeys == {"length", "seed"}

\* a caller's params argument: None, or a mapping
ParamMappings ==
    { [none |-> TRUE, map |-> << >>] }
    \cup { [none |-> FALSE, map |-> m] :
             m \in UNION { [D -> ParamValues] : D \in SUBSET ParamKeys } }

\* Action(type=action_type, params=params or {}), __init__.py:39-40
_action(action_type, params) ==
    [type |-> action_type, params |-> params, id |-> "None"]

\* mutant
generate_random_overwrite(params) ==
    LET payload == IF params.none THEN << >> ELSE params.map
    IN  _action(ACTION_RANDOM_GENERATE,
                [k \in DOMAIN payload \cup {"length"} |->
                    IF k = "length" THEN PyInt(DEFAULT_LENGTH) ELSE payload[k]])

\* generate_random: `params or {}`, then the default where .get("length") is falsy
generate_random(params) ==
    LET payload == IF params.none THEN << >> ELSE params.map
        given   == "length" \in DOMAIN payload /\ Truthy(payload["length"])
    IN  _action(ACTION_RANDOM_GENERATE,
                IF given THEN payload
                ELSE [k \in DOMAIN payload \cup {"length"} |->
                         IF k = "length" THEN PyInt(DEFAULT_LENGTH) ELSE payload[k]])

NoAction == [type |-> "unset", params |-> << >>, id |-> "None"]

RandomInit ==
    /\ IdleInit
    /\ pc = "generate_random"
    /\ arg \in ParamMappings
    /\ out1 = NoAction /\ out2 = NoResult

GenerateRandom ==
    /\ pc = "generate_random"
    /\ out1' = generate_random(arg)
    /\ pc' = "returned"
    /\ UNCHANGED <<arg, out2, idle>>

SpecRandom == RandomInit /\ [][GenerateRandom]_vars

-----------------------------------------------------------------------------
(* Vocabulary of the properties *)

Invocations == { i \in 1..Len(calls) : calls[i].cmd \in {"contract run", "invokefunction"} }

Transfers == { i \in 1..Len(calls) : calls[i].cmd = "transfer" }

Issued(method) == { i \in Invocations : calls[i].method = method }

\* the digits of an identifier string, without its prefix
Digits(h) == IF StartsWith0x(h) THEN SubSeq(h, 3, Len(h)) ELSE h

\* a str that spells exactly 20 bytes in hex
IsHash160(h) == FromHex(Digits(h)).ok /\ Len(FromHex(Digits(h)).raw) = HASH160_LEN

\* the spelling reverse_hash160 emits: 0x and lowercase digits
IsCanonical(h) ==
    /\ StartsWith0x(h)
    /\ \A i \in 3..Len(h) : \E k \in 1..16 : LowerHex[k] = h[i]

\* the same bytes in opposite order, spelled canonically
ByteReversedForm(h) == <<"0", "x">> \o ToHex(Reversed(FromHex(Digits(h)).raw))

\* x is the as-loaded identifier `loaded` reversed once: not as loaded (zero
\* reversals) and not reversed back (two)
OnceReversed(x, loaded) ==
    /\ IsHash160(loaded)
    /\ x = ByteReversedForm(loaded)
    /\ Digits(x) # ToHex(FromHex(Digits(loaded)).raw)

\* the contract a service type is registered for
ServiceContract(type) ==
    GATEWAY_SERVICES[CHOOSE i \in 1..Len(GATEWAY_SERVICES) : GATEWAY_SERVICES[i].type = type]

Wired == { GATEWAY_SERVICES[i].contract : i \in 1..Len(GATEWAY_SERVICES) }
         \cup { EXAMPLES[i] : i \in 1..Len(EXAMPLES) }

-----------------------------------------------------------------------------
(* C1 *)

-----------------------------------------------------------------------------
(* C2 *)

NoTeeData == tee_hash = << >> \/ tee_pubkey = << >>

\* C2: on either profile, with ServiceLayerGateway and OracleService deployed,
\* no TEE wallet data and no external call failing, the run registers no TEE
\* account, logs the skipped registration, registers the oracle service and
\* ends with exit status 0.
C2_SkipsTeeAndCompletes ==
    ( /\ pc = "done"
      /\ network \in NETWORKS /\ fileExists /\ neoxpFound
      /\ IsHash160(Get(deployed, "ServiceLayerGateway"))
      /\ IsHash160(Get(deployed, "OracleService"))
      /\ NoTeeData
      /\ \A i \in 1..Len(calls) : calls[i].outcome = "ok" )
    => /\ exitStatus = 0
       /\ Issued("registerTEEAccount") = {}
       /\ \E k \in 1..Len(log) :
             log[k] = "Warning: Missing TEE wallet info; skipping TEE registration"
       /\ \E i \in Issued("registerService") :
             calls[i].args = <<S_oracle, ByteReversedForm(deployed["OracleService"])>>

\* the same, on the local profile only
C2_LocalProfileOnly == network = "neoexpress" => C2_SkipsTeeAndCompletes

-----------------------------------------------------------------------------
(* C3 *)

\* the Hash160 arguments of a call are reversed once (an empty argument is no
\* identifier)
ArgsOnceReversed(c) ==
    CASE c.method = "registerTEEAccount" -> OnceReversed(c.args[1], tee_hash)
      [] c.method = "registerService" ->
            OnceReversed(c.args[2], Get(deployed, ServiceContract(c.args[1]).contract))
      [] c.method = "setGateway" ->
            c.args[1] = << >> \/ OnceReversed(c.args[1], Get(deployed, "ServiceLayerGateway"))
      [] c.method = "setDataFeedsContract" ->
            OnceReversed(c.args[1], Get(deployed, "DataFeedsService"))

\* the contract a call is meant for
Targets(c) ==
    CASE c.method \in {"registerTEEAccount", "registerService"} -> {"ServiceLayerGateway"}
      [] c.method = "setGateway" -> Wired
      [] c.method = "setDataFeedsContract" -> {"DeFiPriceConsumer"}

\* C3 (as claimed): the target contract identifier and every Hash160 argument
\* of every invocation are reversed exactly once.
C3_EverythingReversedOnce ==
    \A i \in Invocations :
        /\ \E n \in Targets(calls[i]) : OnceReversed(calls[i].target, Get(deployed, n))
        /\ ArgsOnceReversed(calls[i])

\* C3 (amended): every Hash160 argument of every invocation is reversed
\* exactly once; the target contract identifier is handed over as loaded.
C3_ArgsReversedOnceTargetAsLoaded ==
    \A i \in Invocations :
        /\ \E n \in Targets(calls[i]) \cap DOMAIN deployed :
              calls[i].target = deployed[n] /\ calls[i].target # << >>
        /\ ArgsOnceReversed(calls[i])

C3_Witness ==
    /\ pc = "done" /\ exitStatus = 0
    /\ Issued("registerTEEAccount") # {}
    /\ Issued("registerService") # {}
    /\ Issued("setDataFeedsContract") # {}
    /\ \E i \in Issued("setGateway") : calls[i].args[1] # << >>

-----------------------------------------------------------------------------
(* C7 *)

\* C7: no transfer is ever issued on the remote profile and fund_accounts
\* issues no call at all there; on the local profile a run that reaches the
\* funding phase issues exactly one transfer, 100 GAS from genesis to user,
\* after everything the other phases issued.
C7_TransferOnlyLocal ==
    /\ [](/\ network # "neoexpress" => Transfers = {}
          /\ pc # "done" => Transfers = {}
          /\ (pc = "done" /\ exitStatus = 1) => Transfers = {}
          /\ (pc = "done" /\ exitStatus = 0 /\ network = "neoexpress") =>
                /\ Transfers = {Len(calls)}
                /\ calls[Len(calls)].tool = "neoxp"
                /\ calls[Len(calls)].args = <<S_100, S_GAS, S_genesis, S_user>>)
    /\ [][(pc = "fund" /\ network # "neoexpress") => calls' = calls]_vars
    /\ [][Transfers' # Transfers => pc = "fund"]_vars

C7_Witness ==
    /\ pc = "done" /\ exitStatus = 0 /\ network = "neoexpress"
    /\ Len(calls) >= 4
    /\ calls[Len(calls)].cmd = "transfer"

C7_RemoteWitness ==
    /\ pc = "done" /\ exitStatus = 0 /\ network = "testnet"
    /\ Invocations # {}

-----------------------------------------------------------------------------
(* C8 *)

MissingPrerequisite == argv \notin NETWORKS \/ ~fileExists \/ ~neoxpFound

\* C8: with an unknown profile name, no registry file or no local tool, the
\* run ends at once with exit status 1 and has issued no external call.
C8_MissingPrerequisiteIsFatal ==
    MissingPrerequisite =>
        /\ calls = << >>
        /\ pc \in {"main", "done"}
        /\ pc = "done" => exitStatus = 1

C8_Witness ==
    /\ pc = "done" /\ exitStatus = 1
    /\ argv = "neoexpress" /\ ~fileExists /\ neoxpFound
    /\ log = <<"Error: FileNotFoundError", "Run deploy_all.sh first to deploy contracts">>

-----------------------------------------------------------------------------
(* C10 *)

\* C10: every setGateway invocation carries the once-reversed identifier of
\* the deployed ServiceLayerGateway, never an empty address.
C10_SetGatewayCarriesGateway ==
    \A i \in Issued("setGateway") :
        /\ calls[i].args[1] # << >>
        /\ OnceReversed(calls[i].args[1], Get(deployed, "ServiceLayerGateway"))

\* the same, for the service-wiring phase alone
C10_ServicePhaseOnly ==
    \A i \in Issued("setGateway") :
        (\E k \in 1..Len(GATEWAY_SERVICES) :
            calls[i].target = Get(deployed, GATEWAY_SERVICES[k].contract))
        => OnceReversed(calls[i].args[1], Get(deployed, "ServiceLayerGateway"))

-----------------------------------------------------------------------------
(* C4, C5: reverse_hash160 under SpecReverse *)

\* C4 (as claimed): reversing a valid identifier twice gives back the string
\* itself, with or without the 0x prefix.
C4_DoubleReverseIsIdentity ==
    (pc = "returned" /\ arg # << >> /\ IsHash160(arg)) =>
        (out2.raised = "none" /\ out2.value = arg)

\* C4 (amended): reversing a valid identifier twice gives its canonical
\* spelling (0x, lowercase digits) of the same bytes, which is the string
\* itself exactly when it was spelled that way.
C4_DoubleReverseIsCanonical ==
    (pc = "returned" /\ arg # << >> /\ IsHash160(arg)) =>
        /\ out1.raised = "none" /\ out2.raised = "none"
        /\ out2.value = <<"0", "x">> \o ToHex(FromHex(Digits(arg)).raw)
        /\ (out2.value = arg) <=> IsCanonical(arg)

C4_Witness ==
    /\ pc = "returned" /\ IsHash160(arg) /\ IsCanonical(arg)
    /\ out1.value # arg
    /\ out2.value = arg

C4_UnprefixedWitness ==
    /\ pc = "returned" /\ IsHash160(arg) /\ ~StartsWith0x(arg)
    /\ out2.raised = "none" /\ out2.value # arg

\* C5: the empty string comes back as the empty string; a non-empty input is
\* accepted only if it spells exactly 20 bytes; one that spells any other
\* number of bytes raises the size-mismatch ValueError, and any other one the
\* ValueError of the hex decoding; a raise yields no value.
C5_OnlyTwentyBytesAccepted ==
    pc # "reverse" =>
        /\ arg = << >> => out1 = [raised |-> "none", value |-> << >>]
        /\ (arg # << >> /\ out1.raised = "none") => IsHash160(arg)
        /\ (arg # << >> /\ IsHash160(arg)) => out1.raised = "none"
        /\ (arg # << >> /\ FromHex(Digits(arg)).ok /\ ~IsHash160(arg)) =>
              out1 = [raised |-> "ValueError:size", value |-> << >>]
        /\ (arg # << >> /\ ~FromHex(Digits(arg)).ok) =>
              out1 = [raised |-> "ValueError:fromhex", value |-> << >>]

C5_Witness ==
    /\ pc = "returned"
    /\ FromHex(Digits(arg)).ok
    /\ Len(FromHex(Digits(arg)).raw) = HASH160_LEN + 1
    /\ out1.raised = "ValueError:size"

-----------------------------------------------------------------------------
(* C6: invoke under SpecInvoke *)

\* C6: invoking a contract name that the registry lacks, or maps to an empty
\* identifier, returns the not-found result, raises nothing and issues no
\* call on either transport.
C6_UnknownContractIsSkipped ==
    (pc = "returned" /\ Get(deployed, arg.contract) = << >>) =>
        /\ out1 = [raised |-> "none", value |-> "error: contract not found"]
        /\ calls = << >>
        /\ log = <<"Warning: Contract not found in deployed contracts">>

C6_Witness ==
    /\ pc = "returned" /\ network = "testnet"
    /\ arg.contract \in DOMAIN deployed /\ deployed[arg.contract] = << >>
    /\ out1.value = "error: contract not found"

C6_MissingNameWitness ==
    /\ pc = "returned" /\ network = "neoexpress"
    /\ arg.contract \notin DOMAIN deployed /\ deployed # << >>
    /\ out1.value = "error: contract not found"

-----------------------------------------------------------------------------
(* C9: generate_random under SpecRandom *)

Supplied == ~arg.none /\ "length" \in DOMAIN arg.map

CarriedOver ==
    /\ out1.type = ACTION_RANDOM_GENERATE
    /\ DOMAIN out1.params = (IF arg.none THEN {} ELSE DOMAIN arg.map) \cup {"length"}
    /\ \A k \in DOMAIN out1.params \ {"length"} : out1.params[k] = arg.map[k]

\* C9 (as claimed): length is 32 when the caller omitted it, the caller's own
\* value whenever one was supplied; the other keys are carried over.
C9_SuppliedLengthKept ==
    pc = "returned" =>
        /\ CarriedOver
        /\ ~Supplied => out1.params["length"] = PyInt(DEFAULT_LENGTH)
        /\ Supplied => out1.params["length"] = arg.map["length"]

\* C9 (amended): length is 32 when the caller omitted it or supplied a falsy
\* value (0, None, "", False); a truthy value is kept; the other keys are
\* carried over.
C9_TruthyLengthKept ==
    pc = "returned" =>
        /\ CarriedOver
        /\ (Supplied /\ Truthy(arg.map["length"])) =>
              out1.params["length"] = arg.map["length"]
        /\ ~(Supplied /\ Truthy(arg.map["length"])) =>
              out1.params["length"] = PyInt(DEFAULT_LENGTH)

C9_Witness ==
    /\ pc = "returned" /\ Supplied
    /\ arg.map["length"] = PyInt(MaxParam)
    /\ "seed" \in DOMAIN arg.map
    /\ out1.params = arg.map

C9_FalsyWitness ==
    /\ pc = "returned" /\ Supplied
    /\ arg.map["length"] = PyInt(0)
    /\ out1.params["length"] = PyInt(DEFAULT_LENGTH)

====
